---- MODULE Spec2Model ----
(***************************************************************************)
(* State-machine model of the iOS backend of surfman:                      *)
(*   src/surfman/src/platform/ios/context.rs  (Context, Device context ops)*)
(*   src/surfman/src/platform/ios/surface.rs  (Surface, SurfaceDataGuard)  *)
(* Values that Rust moves (Surface, Context) are records that live in      *)
(* exactly the place that owns them: the caller's set of free surfaces, a  *)
(* context's framebuffer, or a thread's local variable.                    *)
(***************************************************************************)
EXTENDS Integers, FiniteSets, Bags, TLC

(* ------------------------------ bounds -------------------------------- *)
\* Threads that may run create_context concurrently.
NumThreads == 2
\* Context values the callers keep alive at the same time.
MaxContexts == 2
\* Cap of the shared context-id counter (it is a u64 in the program).
MaxContextId == 2
\* IOSurface objects alive at the same time.
MaxSurfaces == 2

(* --------------------------- program constants ------------------------ *)
BYTES_PER_PIXEL == 4
kEAGLRenderingAPIOpenGLES1 == 1
kEAGLRenderingAPIOpenGLES3 == 3

Threads == 1..NumThreads
ContextSlots == 1..MaxContexts
IOSurfaces == 1..MaxSurfaces
NoThread == 0
\* The ContextIDs the counter hands out, and the id of no Context.
ContextIDs == 0..(MaxContextId - 1)
NoContextID == -1

\* SurfaceAccess
SurfaceAccess == {"GPUOnly", "GPUCPU", "GPUCPUWriteCombined"}
\* Requested surface sizes (width, height).
Sizes == {<<2, 1>>}
\* Requested GL major versions (descriptor.gl_version.major).
GLMajorVersions == {0, 2, 4}
\* Texture object names a SurfaceTexture value may carry.
TextureObjects == {1}

(* ------------------------------ values -------------------------------- *)
\* The absent Surface (None of an Option<Surface>).
NoSurface ==
    [context_id |-> -1, io_surface |-> 0, size |-> <<0, 0>>,
     access |-> "GPUOnly", destroyed |-> FALSE]

\* Framebuffer<Surface, ()>
FramebufferNone == [kind |-> "None", surface |-> NoSurface]
FramebufferExternal == [kind |-> "External", surface |-> NoSurface]
FramebufferSurface(s) == [kind |-> "Surface", surface |-> s]

\* An empty context slot (no Context value lives there).
NoContext ==
    [id |-> -1, eagl_context |-> 0, gl_version |-> 0,
     framebuffer |-> FramebufferNone]

\* The absent SurfaceTexture.
NoSurfaceTexture == [surface |-> NoSurface, texture_object |-> 0]

VARIABLES
    next_context_id,  \* the ContextID behind CREATE_CONTEXT_MUTEX
    mutex_holder,     \* the thread holding CREATE_CONTEXT_MUTEX, or NoThread
    pc,               \* per thread: its position inside create_context
    local,            \* per thread: (slot, Context) being built, or NoContext
    contexts,         \* per slot: the live Context value, or NoContext
    surfaces,         \* the free-standing Surface values the callers own
    guards,           \* bag of live SurfaceDataGuard values
    io_lock_count,    \* per IOSurface: IOSurfaceLock calls that succeeded
                      \* minus IOSurfaceUnlock calls made
    panicked,         \* a panic!() has been raised (thread::panicking())
    current_context,  \* the EAGLContext that is current, named by the id of
                      \* the Context that wraps it; NoContextID for nil
    release_count,    \* per ContextID: `release` messages its EAGLContext got
    last              \* the last completed operation and what it returned

vars == <<next_context_id, mutex_holder, pc, local, contexts, surfaces,
          guards, io_lock_count, panicked, current_context, release_count,
          last>>

\* The record kept of the last completed operation: what was passed, what
\* the state was before, and what came back.  The context is recorded for
\* the operations that read or write it.
Report(op, ctx, s, result) ==
    [op |-> op, ctx |-> ctx, surface |-> s, texture |-> NoSurfaceTexture,
     result |-> result, returned |-> NoSurface,
     returned_texture |-> NoSurfaceTexture, fb_before |-> FramebufferNone,
     native_calls |-> 0, native_result |-> "none",
     lock_count_before |-> 0, gl_version |-> 0, supported |-> {},
     surface_type |-> "none", current_before |-> NoContextID]

NoReport == Report("none", 0, NoSurface, "Ok")

Init ==
    /\ next_context_id = 0
    /\ mutex_holder = NoThread
    /\ pc = [t \in Threads |-> "idle"]
    /\ local = [t \in Threads |-> NoContext]
    /\ contexts = [c \in ContextSlots |-> NoContext]
    /\ surfaces = {}
    /\ guards = EmptyBag
    /\ io_lock_count = [h \in IOSurfaces |-> 0]
    /\ panicked = FALSE
    /\ current_context = NoContextID
    /\ release_count = [i \in ContextIDs |-> 0]
    /\ last = NoReport

LiveSlots == {c \in ContextSlots : contexts[c] # NoContext}

\* Surfaces held in the framebuffers of live contexts.
BoundSurfaces ==
    {contexts[c].framebuffer.surface :
        c \in {d \in LiveSlots : contexts[d].framebuffer.kind = "Surface"}}

\* IOSurface objects that are alive (owned by a Surface not yet dropped).
LiveIOSurfaces == {s.io_surface : s \in surfaces \cup BoundSurfaces}

\* The slot a new Context value is put in: the first free one (slots only
\* name the Context values of the callers, so which one is taken is
\* immaterial).
FirstFreeSlot(c) ==
    /\ contexts[c] = NoContext
    /\ \A d \in ContextSlots : d < c => contexts[d] # NoContext

\* io_surface::new: the address of the new IOSurface object is one no live
\* object has; the allocator is taken to hand out the lowest such address.
io_surface_new(h) ==
    /\ h \notin LiveIOSurfaces
    /\ \A k \in IOSurfaces : k < h => k \in LiveIOSurfaces

(* ------------------------- context creation --------------------------- *)
\* The probing loop of Context::create_context: initWithAPI is tried with
\* version, version - 1, ... 1 until the native layer accepts one;
\* `supported` is the set of APIs the native layer accepts.  The value is
\* the API of the context obtained, 0 for nil.
RECURSIVE ProbeAPI(_, _)
ProbeAPI(version, supported) ==
    IF version <= 0 THEN 0
    ELSE IF version \in supported THEN version
    ELSE ProbeAPI(version - 1, supported)

\* Mutant of VersionInRange: the upper end of the range is not checked.
VersionInRangeNoUpperBound(version) ==
    version >= kEAGLRenderingAPIOpenGLES1

\* Device::create_context's range check of the requested major version.
VersionInRange(version) ==
    /\ version >= kEAGLRenderingAPIOpenGLES1
    /\ version <= kEAGLRenderingAPIOpenGLES3

InFlight == {t \in Threads : pc[t] # "idle"}

\* Device::create_context up to the point where Context::create_context
\* asks for CREATE_CONTEXT_MUTEX: the range check and the native probing.
create_context_begin(t, major, supported) ==
    /\ ~panicked
    /\ pc[t] = "idle"
    /\ next_context_id + Cardinality(InFlight) < MaxContextId
    /\ Cardinality(LiveSlots) + Cardinality(InFlight) < MaxContexts
    /\ LET valid_context ==
               IF VersionInRange(major) THEN ProbeAPI(major, supported) ELSE 0
       IN  IF valid_context = 0
           THEN /\ last' = [Report("create_context", 0, NoSurface, "Failed")
                            EXCEPT !.gl_version = major,
                                   !.supported = supported]
                /\ UNCHANGED <<pc, local>>
           ELSE /\ pc' = [pc EXCEPT ![t] = "lock"]
                /\ local' = [local EXCEPT ![t] =
                       [id |-> -1, eagl_context |-> valid_context,
                        gl_version |-> major,
                        framebuffer |-> FramebufferNone]]
                /\ UNCHANGED last
    /\ UNCHANGED <<next_context_id, mutex_holder, contexts, surfaces, guards,
                   io_lock_count, panicked,
                   current_context, release_count>>

\* Mutant of MutexAvailable: the lock is handed out while it is held.
MutexAlwaysAvailable == TRUE

\* CREATE_CONTEXT_MUTEX can be taken: no thread holds it.
MutexAvailable == mutex_holder = NoThread

\* CREATE_CONTEXT_MUTEX.lock()
create_context_lock(t) ==
    /\ ~panicked
    /\ pc[t] = "lock"
    /\ MutexAvailable
    /\ mutex_holder' = t
    /\ pc' = [pc EXCEPT ![t] = "locked"]
    /\ UNCHANGED <<next_context_id, local, contexts, surfaces, guards,
                   io_lock_count, panicked, last,
                   current_context, release_count>>

\* let ctx = Context { id: *next_context_id, ... }
create_context_read_id(t) ==
    /\ ~panicked
    /\ pc[t] = "locked"
    /\ local' = [local EXCEPT ![t].id = next_context_id]
    /\ pc' = [pc EXCEPT ![t] = "built"]
    /\ UNCHANGED <<next_context_id, mutex_holder, contexts, surfaces, guards,
                   io_lock_count, panicked, last,
                   current_context, release_count>>

\* next_context_id.0 += 1; Ok(ctx): the mutex guard is dropped on return and
\* the caller stores the Context in a free slot.
create_context_return(t, c) ==
    /\ ~panicked
    /\ pc[t] = "built"
    /\ FirstFreeSlot(c)
    /\ next_context_id' = next_context_id + 1
    /\ mutex_holder' = NoThread
    /\ contexts' = [contexts EXCEPT ![c] = local[t]]
    /\ local' = [local EXCEPT ![t] = NoContext]
    /\ pc' = [pc EXCEPT ![t] = "idle"]
    /\ last' = [Report("create_context", c, NoSurface, "Ok")
                EXCEPT !.gl_version = local[t].gl_version]
    /\ UNCHANGED <<surfaces, guards, io_lock_count,
                   panicked,
                   current_context, release_count>>

\* Device::create_context(descriptor, share_with) taken as one step: the
\* mutex makes the read and the increment of the counter one step for every
\* other thread, and nothing else of the call touches shared state.
create_context(c, major, supported) ==
    /\ ~panicked
    /\ InFlight = {}
    /\ FirstFreeSlot(c)
    /\ next_context_id < MaxContextId
    /\ LET valid_context ==
               IF VersionInRange(major) THEN ProbeAPI(major, supported) ELSE 0
       IN  IF valid_context = 0
           THEN /\ last' = [Report("create_context", 0, NoSurface, "Failed")
                            EXCEPT !.gl_version = major,
                                   !.supported = supported]
                /\ UNCHANGED <<next_context_id, contexts>>
           ELSE /\ contexts' = [contexts EXCEPT ![c] =
                       [id |-> next_context_id, eagl_context |-> valid_context,
                        gl_version |-> major,
                        framebuffer |-> FramebufferNone]]
                /\ next_context_id' = next_context_id + 1
                /\ last' = [Report("create_context", c, NoSurface, "Ok")
                            EXCEPT !.gl_version = major,
                                   !.supported = supported]
    /\ UNCHANGED <<mutex_holder, pc, local, surfaces, guards, io_lock_count, panicked,
                   current_context, release_count>>

\* Mutant of SurfaceDropPanics: the destroyed flag is not looked at.
SurfaceDropPanicsAlways(s) == ~panicked

\* Drop for Surface: the value of the panic test,
\* !self.destroyed && !thread::panicking().
SurfaceDropPanics(s) == ~s.destroyed /\ ~panicked

\* Drop for Context: the number of `release` messages it sends.
ContextDropReleases(context) == 1

\* Drop for Context (release of the native handle), then the drop of its
\* fields: a Surface still in the framebuffer is dropped with it.  It runs
\* when the caller lets go of the Context, also while a panic unwinds.
drop_context(c) ==
    /\ c \in LiveSlots
    /\ LET fb == contexts[c].framebuffer
           panics == fb.kind = "Surface" /\ SurfaceDropPanics(fb.surface)
       IN  /\ panicked' = (panicked \/ panics)
           /\ last' = [Report("drop_context", c, fb.surface,
                              IF panics THEN "Panic" ELSE "Ok")
                       EXCEPT !.fb_before = fb,
                              !.native_calls = ContextDropReleases(contexts[c])]
    /\ release_count' = [release_count EXCEPT ![contexts[c].id] =
                             @ + ContextDropReleases(contexts[c])]
    /\ contexts' = [contexts EXCEPT ![c] = NoContext]
    /\ UNCHANGED <<next_context_id, mutex_holder, pc, local, surfaces, guards,
                   io_lock_count, current_context>>

(* ------------------------ context operations -------------------------- *)
\* ContextAttributes::zeroed(): version 0.0 and no flags.
ContextAttributesZeroed == [version |-> 0, flags |-> 0]

\* Device::create_context_from_native_context(native_context): NativeContext
\* is a unit struct, so nothing of the argument reaches the call; a
\* descriptor is built from zeroed attributes and given to create_context.
create_context_from_native_context(c, supported) ==
    /\ ~panicked
    /\ InFlight = {}
    /\ FirstFreeSlot(c)
    /\ next_context_id < MaxContextId
    /\ LET attribs == ContextAttributesZeroed
           major == attribs.version
           valid_context ==
               IF VersionInRange(major) THEN ProbeAPI(major, supported) ELSE 0
       IN  IF valid_context = 0
           THEN /\ last' = [Report("create_context_from_native_context", 0,
                                   NoSurface, "Failed")
                            EXCEPT !.gl_version = major,
                                   !.supported = supported]
                /\ UNCHANGED <<next_context_id, contexts>>
           ELSE /\ contexts' = [contexts EXCEPT ![c] =
                       [id |-> next_context_id, eagl_context |-> valid_context,
                        gl_version |-> major,
                        framebuffer |-> FramebufferNone]]
                /\ next_context_id' = next_context_id + 1
                /\ last' = [Report("create_context_from_native_context", c,
                                   NoSurface, "Ok")
                            EXCEPT !.gl_version = major,
                                   !.supported = supported]
    /\ UNCHANGED <<mutex_holder, pc, local, surfaces, guards, io_lock_count,
                   panicked, current_context, release_count>>

\* Device::destroy_context: the number of `release` messages it sends.
\* drop(context) drops the `&mut Context` reference, not the Context.
DestroyContextReleases(context) == 0

\* Device::destroy_context(context)
destroy_context(c) ==
    /\ ~panicked
    /\ c \in LiveSlots
    /\ release_count' = [release_count EXCEPT ![contexts[c].id] =
                             @ + DestroyContextReleases(contexts[c])]
    /\ last' = [Report("destroy_context", c, contexts[c].framebuffer.surface,
                       "Ok")
                EXCEPT !.fb_before = contexts[c].framebuffer,
                       !.native_calls = DestroyContextReleases(contexts[c])]
    /\ UNCHANGED <<next_context_id, mutex_holder, pc, local, contexts,
                   surfaces, guards, io_lock_count, panicked, current_context>>

\* Device::context_descriptor(context): the descriptor it builds.
ContextDescriptorOf(context) ==
    [gl_version |-> context.gl_version, attribs |-> ContextAttributesZeroed]

\* Device::context_descriptor(context)
context_descriptor(c) ==
    /\ ~panicked
    /\ c \in LiveSlots
    /\ last' = [Report("context_descriptor", c, NoSurface, "Ok")
                EXCEPT !.gl_version = ContextDescriptorOf(contexts[c]).gl_version]
    /\ UNCHANGED <<next_context_id, mutex_holder, pc, local, contexts,
                   surfaces, guards, io_lock_count, panicked, current_context,
                   release_count>>

\* Context::make_current and Context::make_no_context_current: the Result
\* made from the BOOL that `setCurrentContext:` returns.
SetCurrentResult(res) == IF res = "YES" THEN "Ok" ELSE "Failed"

\* Device::make_context_current and Device::make_no_context_current: the
\* Result of the Context method is evaluated and discarded; Ok(()) is returned.
DeviceSetCurrentResult(inner) == "Ok"

\* Device::make_context_current(context); res is what the native
\* `setCurrentContext:` returns, and a rejected call leaves the current
\* context as it was.
make_context_current(c, res) ==
    /\ ~panicked
    /\ c \in LiveSlots
    /\ current_context' = IF res = "YES" THEN contexts[c].id ELSE current_context
    /\ last' = [Report("make_context_current", c, NoSurface,
                       DeviceSetCurrentResult(SetCurrentResult(res)))
                EXCEPT !.native_calls = 1, !.native_result = res,
                       !.current_before = current_context]
    /\ UNCHANGED <<next_context_id, mutex_holder, pc, local, contexts,
                   surfaces, guards, io_lock_count, panicked, release_count>>

\* Device::make_no_context_current(): `setCurrentContext: nil`.
make_no_context_current(res) ==
    /\ ~panicked
    /\ current_context' = IF res = "YES" THEN NoContextID ELSE current_context
    /\ last' = [Report("make_no_context_current", 0, NoSurface,
                       DeviceSetCurrentResult(SetCurrentResult(res)))
                EXCEPT !.native_calls = 1, !.native_result = res,
                       !.current_before = current_context]
    /\ UNCHANGED <<next_context_id, mutex_holder, pc, local, contexts,
                   surfaces, guards, io_lock_count, panicked, release_count>>

(* ------------------------------ borrows ------------------------------- *)
\* Mutant of Borrowed: the guard keeps no borrow of its Surface.
NeverBorrowed(s) == FALSE

\* A SurfaceDataGuard holds `surface: &'a mut Surface`: while a guard of
\* surface s is alive, s is exclusively borrowed and nothing else can use it.
Borrowed(s) == \E g \in BagToSet(guards) : g.surface = s.io_surface

(* ------------------------- binding state machine ---------------------- *)
\* Mutant of BindResult: the comparison of the ids is left out.
BindResultNoIdCheck(context, new_surface) ==
    CASE context.framebuffer.kind = "External" -> "ExternalRenderTarget"
      [] context.framebuffer.kind = "Surface" -> "SurfaceAlreadyBound"
      [] OTHER -> "Ok"

\* Mutant of BindResult: an occupied framebuffer is not refused.
BindResultReplacing(context, new_surface) ==
    CASE context.framebuffer.kind = "External" -> "ExternalRenderTarget"
      [] OTHER ->
            IF new_surface.context_id # context.id
            THEN "IncompatibleSurface"
            ELSE "Ok"

\* Mutant of BindResult: an external render target is not refused.
BindResultExternalIgnored(context, new_surface) ==
    CASE context.framebuffer.kind = "Surface" -> "SurfaceAlreadyBound"
      [] OTHER ->
            IF new_surface.context_id # context.id
            THEN "IncompatibleSurface"
            ELSE "Ok"

\* bind_surface_to_context: the error it returns, "Ok" for none.
BindResult(context, new_surface) ==
    CASE context.framebuffer.kind = "External" -> "ExternalRenderTarget"
      [] context.framebuffer.kind = "Surface" -> "SurfaceAlreadyBound"
      [] OTHER ->
            IF new_surface.context_id # context.id
            THEN "IncompatibleSurface"
            ELSE "Ok"

\* Mutant of BindReturned: the Surface is dropped on the id mismatch.
BindReturnedDropsIncompatible(result, new_surface) ==
    IF result \in {"Ok", "IncompatibleSurface"} THEN NoSurface ELSE new_surface

\* Mutant of BindReturned: the Surface handed back has lost its context.
BindReturnedRetagged(result, new_surface) ==
    IF result = "Ok" THEN NoSurface
    ELSE [new_surface EXCEPT !.context_id = NoContextID]

\* Mutant of BindReturned: a copy of the Surface stays with the caller when
\* the bind succeeds.
BindReturnedAlways(result, new_surface) == new_surface

\* bind_surface_to_context: the Surface handed back beside an error.
BindReturned(result, new_surface) ==
    IF result = "Ok" THEN NoSurface ELSE new_surface

\* Device::bind_surface_to_context(context, new_surface): new_surface is
\* moved out of the caller; it ends in the framebuffer or comes back.
bind_surface_to_context(c, s) ==
    /\ ~panicked
    /\ c \in LiveSlots
    /\ s \in surfaces
    /\ ~Borrowed(s)
    /\ LET result == BindResult(contexts[c], s)
           returned == BindReturned(result, s)
       IN  /\ contexts' =
                 IF result = "Ok"
                 THEN [contexts EXCEPT ![c].framebuffer = FramebufferSurface(s)]
                 ELSE contexts
           /\ surfaces' = (surfaces \ {s}) \cup
                              (IF returned = NoSurface THEN {} ELSE {returned})
           /\ last' = [Report("bind_surface_to_context", c, s, result)
                       EXCEPT !.returned = returned,
                              !.fb_before = contexts[c].framebuffer]
    /\ UNCHANGED <<next_context_id, mutex_holder, pc, local, guards,
                   io_lock_count, panicked,
                   current_context, release_count>>

\* unbind_surface_from_context: the error it returns, "Ok" for none.
UnbindResult(context) ==
    IF context.framebuffer.kind = "External"
    THEN "ExternalRenderTarget"
    ELSE "Ok"

\* Mutant of UnbindFramebuffer: the framebuffer is read, not replaced.
UnbindFramebufferKept(fb) == fb

\* unbind_surface_from_context: what mem::replace leaves in the framebuffer.
UnbindFramebuffer(fb) == FramebufferNone

\* Mutant of UnbindReturned: the Surface comes back marked destroyed.
UnbindReturnedDestroyed(fb) ==
    IF fb.kind = "Surface"
    THEN [fb.surface EXCEPT !.destroyed = TRUE]
    ELSE NoSurface

\* unbind_surface_from_context: the Surface inside Ok(Some(_)), NoSurface
\* for Ok(None).
UnbindReturned(fb) ==
    IF fb.kind = "Surface" THEN fb.surface ELSE NoSurface

\* Device::unbind_surface_from_context(context)
unbind_surface_from_context(c) ==
    /\ ~panicked
    /\ c \in LiveSlots
    /\ LET fb == contexts[c].framebuffer
           result == UnbindResult(contexts[c])
           returned == IF result = "Ok" THEN UnbindReturned(fb) ELSE NoSurface
       IN  /\ contexts' =
                 IF result = "Ok"
                 THEN [contexts EXCEPT ![c].framebuffer = UnbindFramebuffer(fb)]
                 ELSE contexts
           /\ surfaces' = surfaces \cup
                              (IF returned = NoSurface THEN {} ELSE {returned})
           /\ last' = [Report("unbind_surface_from_context", c, NoSurface, result)
                       EXCEPT !.returned = returned, !.fb_before = fb]
    /\ UNCHANGED <<next_context_id, mutex_holder, pc, local, guards,
                   io_lock_count, panicked,
                   current_context, release_count>>

\* Surface::id(): the address of the IOSurface object.
SurfaceIdOf(s) == s.io_surface

\* Device::surface_info(surface)
surface_info(s) ==
    [size |-> s.size, id |-> SurfaceIdOf(s), context_id |-> s.context_id,
     framebuffer_object |-> 0]

\* context_surface_info: the error it returns, "Ok" for none.
ContextSurfaceInfoResult(context) ==
    IF context.framebuffer.kind = "External"
    THEN "ExternalRenderTarget"
    ELSE "Ok"

\* Device::context_surface_info(context): reads the framebuffer only; the
\* Surface whose info is reported is kept in the report.
context_surface_info(c) ==
    /\ ~panicked
    /\ c \in LiveSlots
    /\ last' = [Report("context_surface_info", c,
                       contexts[c].framebuffer.surface,
                       ContextSurfaceInfoResult(contexts[c]))
                EXCEPT !.fb_before = contexts[c].framebuffer]
    /\ UNCHANGED <<next_context_id, mutex_holder, pc, local, contexts,
                   surfaces, guards, io_lock_count,
                   panicked,
                   current_context, release_count>>

(* ------------------------------ surfaces ------------------------------ *)
\* create_io_surface: the cache mode chosen from the access mode.
CacheMode(access) ==
    IF access = "GPUCPUWriteCombined"
    THEN "kIOMapWriteCombineCache"
    ELSE "kIOMapDefaultCache"

\* create_io_surface: the kIOSurfaceBytesPerRow property of the allocation.
BytesPerRow(size) == size[1] * BYTES_PER_PIXEL

\* Device::create_surface(context, access, SurfaceType::Generic { size }):
\* a new IOSurface object h is allocated and wrapped.
create_surface_generic(c, access, size, h) ==
    /\ ~panicked
    /\ c \in LiveSlots
    /\ io_surface_new(h)
    /\ surfaces' = surfaces \cup
           {[context_id |-> contexts[c].id, io_surface |-> h, size |-> size,
             access |-> access, destroyed |-> FALSE]}
    /\ io_lock_count' = [io_lock_count EXCEPT ![h] = 0]
    /\ last' = [Report("create_surface", c, NoSurface, "Ok")
                EXCEPT !.returned =
                    [context_id |-> contexts[c].id, io_surface |-> h,
                     size |-> size, access |-> access, destroyed |-> FALSE],
                       !.fb_before = contexts[c].framebuffer,
                       !.surface_type = "Generic"]
    /\ UNCHANGED <<next_context_id, mutex_holder, pc, local, contexts, guards,
                   panicked,
                   current_context, release_count>>

\* Device::create_surface(context, access, SurfaceType::Widget { .. })
create_surface_widget(c, access) ==
    /\ ~panicked
    /\ c \in LiveSlots
    /\ panicked' = TRUE
    /\ last' = [Report("create_surface", c, NoSurface, "Panic")
                EXCEPT !.fb_before = contexts[c].framebuffer,
                       !.surface_type = "Widget"]
    /\ UNCHANGED <<next_context_id, mutex_holder, pc, local, contexts,
                   surfaces, guards, io_lock_count,
                   current_context, release_count>>

\* Device::destroy_surface(context, surface)
destroy_surface(c, s) ==
    /\ ~panicked
    /\ c \in LiveSlots
    /\ s \in surfaces
    /\ ~Borrowed(s)
    /\ surfaces' = (surfaces \ {s}) \cup {[s EXCEPT !.destroyed = TRUE]}
    /\ last' = Report("destroy_surface", 0, s, "Ok")
    /\ UNCHANGED <<next_context_id, mutex_holder, pc, local, contexts, guards,
                   io_lock_count, panicked,
                   current_context, release_count>>

\* Drop for Surface, run when the caller lets go of a free-standing Surface,
\* also while a panic unwinds.
drop_surface(s) ==
    /\ s \in surfaces
    /\ ~Borrowed(s)
    /\ surfaces' = surfaces \ {s}
    /\ panicked' = (panicked \/ SurfaceDropPanics(s))
    /\ last' = Report("drop_surface", 0, s,
                      IF SurfaceDropPanics(s) THEN "Panic" ELSE "Ok")
    /\ UNCHANGED <<next_context_id, mutex_holder, pc, local, contexts, guards,
                   io_lock_count,
                   current_context, release_count>>

\* Device::present_surface(context, surface) -> Surface::present()
present_surface(c, s) ==
    /\ ~panicked
    /\ c \in LiveSlots
    /\ s \in surfaces
    /\ ~Borrowed(s)
    /\ last' = Report("present_surface", 0, NoSurface, "Ok")
    /\ UNCHANGED <<next_context_id, mutex_holder, pc, local, contexts,
                   surfaces, guards, io_lock_count,
                   panicked,
                   current_context, release_count>>

\* Device::resize_surface(context, surface, size)
resize_surface(c, s, size) ==
    /\ ~panicked
    /\ c \in LiveSlots
    /\ s \in surfaces
    /\ ~Borrowed(s)
    /\ last' = Report("resize_surface", 0, NoSurface, "Ok")
    /\ UNCHANGED <<next_context_id, mutex_holder, pc, local, contexts,
                   surfaces, guards, io_lock_count,
                   panicked,
                   current_context, release_count>>

\* Device::create_surface_texture(context, surface): the result.
CreateSurfaceTextureResult(context, surface) == "UnsupportedOnThisPlatform"

\* Device::create_surface_texture(context, surface): the Surface handed
\* back beside the error.
CreateSurfaceTextureReturned(surface) == surface

\* Device::create_surface_texture(context, surface): surface is moved out
\* of the caller and comes back in the error.
create_surface_texture(c, s) ==
    /\ ~panicked
    /\ c \in LiveSlots
    /\ s \in surfaces
    /\ ~Borrowed(s)
    /\ LET returned == CreateSurfaceTextureReturned(s)
       IN  /\ surfaces' = (surfaces \ {s}) \cup
                              (IF returned = NoSurface THEN {} ELSE {returned})
           /\ last' = [Report("create_surface_texture", 0, s,
                              CreateSurfaceTextureResult(contexts[c], s))
                       EXCEPT !.returned = returned]
    /\ UNCHANGED <<next_context_id, mutex_holder, pc, local, contexts, guards,
                   io_lock_count, panicked,
                   current_context, release_count>>

\* Device::destroy_surface_texture(context, surface_texture): the result.
DestroySurfaceTextureResult(context, surface_texture) ==
    "UnsupportedOnThisPlatform"

\* Device::destroy_surface_texture(context, surface_texture): the
\* SurfaceTexture handed back beside the error.
DestroySurfaceTextureReturned(surface_texture) == surface_texture

\* Device::destroy_surface_texture(context, surface_texture).  No operation
\* of this backend yields a SurfaceTexture; its fields are pub(crate), so the
\* value passed is one built inside the crate around a free Surface s, and
\* taken apart again when it comes back.
destroy_surface_texture(c, s, texture_object) ==
    /\ ~panicked
    /\ c \in LiveSlots
    /\ s \in surfaces
    /\ ~Borrowed(s)
    /\ LET surface_texture ==
               [surface |-> s, texture_object |-> texture_object]
           returned == DestroySurfaceTextureReturned(surface_texture)
       IN  /\ surfaces' = (surfaces \ {s}) \cup
                  (IF returned = NoSurfaceTexture THEN {} ELSE {returned.surface})
           /\ last' = [Report("destroy_surface_texture", 0, NoSurface,
                              DestroySurfaceTextureResult(contexts[c], surface_texture))
                       EXCEPT !.texture = surface_texture,
                              !.returned_texture = returned]
    /\ UNCHANGED <<next_context_id, mutex_holder, pc, local, contexts, guards,
                   io_lock_count, panicked,
                   current_context, release_count>>

(* ------------------------------ CPU locks ----------------------------- *)
\* SurfaceAccess::cpu_access_allowed()
cpu_access_allowed(access) == access \in {"GPUCPU", "GPUCPUWriteCombined"}

\* Mutant of LockResult: the access mode is not looked at.
LockResultNoAccessCheck(s, native_ok) ==
    IF ~native_ok THEN "SurfaceLockFailed" ELSE "Ok"

\* Surface::lock_data: its outcome, given the access mode and whether
\* IOSurfaceLock returns KERN_SUCCESS; "Ok" stands for Ok(guard).
LockResult(s, native_ok) ==
    IF ~cpu_access_allowed(s.access) THEN "SurfaceDataInaccessible"
    ELSE IF ~native_ok THEN "SurfaceLockFailed"
    ELSE "Ok"

\* Surface::lock_data: whether IOSurfaceLock is called at all.
LockCallsNative(s) == cpu_access_allowed(s.access)

\* The SurfaceDataGuard built by Surface::lock_data (ptr and len are the
\* native base address and allocation size, which the model does not hold).
GuardOf(s) == [surface |-> s.io_surface, stride |-> BytesPerRow(s.size)]

\* Device::lock_surface_data(surface) -> Surface::lock_data()
lock_surface_data(s, native_ok) ==
    /\ ~panicked
    /\ s \in surfaces
    /\ ~Borrowed(s)
    /\ LET h == s.io_surface
           result == LockResult(s, native_ok)
           called == LockCallsNative(s)
       IN  /\ io_lock_count' =
                 IF called /\ native_ok
                 THEN [io_lock_count EXCEPT ![h] = @ + 1]
                 ELSE io_lock_count
           /\ guards' =
                 IF result = "Ok"
                 THEN guards (+) SetToBag({GuardOf(s)})
                 ELSE guards
           /\ last' = [Report("lock_surface_data", 0, s, result)
                       EXCEPT !.native_calls = IF called THEN 1 ELSE 0,
                              !.native_result =
                                  IF ~called THEN "none"
                                  ELSE IF native_ok THEN "KERN_SUCCESS"
                                  ELSE "failure",
                              !.lock_count_before = io_lock_count[h]]
    /\ UNCHANGED <<next_context_id, mutex_holder, pc, local, contexts,
                   surfaces, panicked,
                   current_context, release_count>>

\* Mutant of GuardDropUnlocks: the guard is released without unlocking.
GuardDropForgets(g) == 0

\* Drop for SurfaceDataGuard: the number of IOSurfaceUnlock calls it makes.
GuardDropUnlocks(g) == 1

\* Drop for SurfaceDataGuard, run when the guard goes out of scope, also
\* while a panic unwinds.
drop_guard(g) ==
    /\ BagIn(g, guards)
    /\ io_lock_count' =
           [io_lock_count EXCEPT ![g.surface] = @ - GuardDropUnlocks(g)]
    /\ guards' = guards (-) SetToBag({g})
    /\ last' = [Report("drop_guard", 0, NoSurface, "Ok")
                EXCEPT !.native_calls = GuardDropUnlocks(g),
                       !.lock_count_before = io_lock_count[g.surface]]
    /\ UNCHANGED <<next_context_id, mutex_holder, pc, local, contexts,
                   surfaces, panicked,
                   current_context, release_count>>

(* --------------------------- specifications --------------------------- *)
\* The APIs the native layer may accept.
NativeAPIs == kEAGLRenderingAPIOpenGLES1..kEAGLRenderingAPIOpenGLES3

\* Context creation and release alone, create_context taken step by step
\* by several threads.
NextCreate ==
    \/ \E t \in Threads, major \in GLMajorVersions,
          supported \in SUBSET NativeAPIs :
          create_context_begin(t, major, supported)
    \/ \E t \in Threads : create_context_lock(t)
    \/ \E t \in Threads : create_context_read_id(t)
    \/ \E t \in Threads, c \in ContextSlots : create_context_return(t, c)
    \/ \E c \in ContextSlots : drop_context(c)

SpecCreate == Init /\ [][NextCreate]_vars

\* The operations on surfaces and on the binding of a Surface to a Context,
\* each call taken as one step.
Next ==
    \/ \E c \in ContextSlots, major \in GLMajorVersions,
          supported \in SUBSET NativeAPIs : create_context(c, major, supported)
    \/ \E c \in ContextSlots : drop_context(c)
    \/ \E c \in ContextSlots, s \in surfaces : bind_surface_to_context(c, s)
    \/ \E c \in ContextSlots : unbind_surface_from_context(c)
    \/ \E c \in ContextSlots : context_surface_info(c)
    \/ \E c \in ContextSlots, access \in SurfaceAccess, size \in Sizes,
          h \in IOSurfaces : create_surface_generic(c, access, size, h)
    \/ \E c \in ContextSlots, access \in SurfaceAccess :
          create_surface_widget(c, access)
    \/ \E c \in ContextSlots, s \in surfaces : destroy_surface(c, s)
    \/ \E s \in surfaces : drop_surface(s)
    \/ \E c \in ContextSlots, s \in surfaces : present_surface(c, s)
    \/ \E c \in ContextSlots, s \in surfaces, size \in Sizes :
          resize_surface(c, s, size)
    \/ \E c \in ContextSlots, s \in surfaces : create_surface_texture(c, s)
    \/ \E c \in ContextSlots, s \in surfaces, o \in TextureObjects :
          destroy_surface_texture(c, s, o)
    \/ \E s \in surfaces, native_ok \in BOOLEAN : lock_surface_data(s, native_ok)
    \/ \E g \in BagToSet(guards) : drop_guard(g)

Spec == Init /\ [][Next]_vars

\* What `setCurrentContext:` may return.
NativeBOOL == {"YES", "NO"}

\* The life of a Context and the current context: creation, destruction,
\* the current-context switch, and the Surface a Context may hold meanwhile.
NextContext ==
    \/ \E c \in ContextSlots, major \in GLMajorVersions,
          supported \in SUBSET NativeAPIs : create_context(c, major, supported)
    \/ \E c \in ContextSlots, supported \in SUBSET NativeAPIs :
          create_context_from_native_context(c, supported)
    \/ \E c \in ContextSlots : destroy_context(c)
    \/ \E c \in ContextSlots : drop_context(c)
    \/ \E c \in ContextSlots : context_descriptor(c)
    \/ \E c \in ContextSlots, res \in NativeBOOL : make_context_current(c, res)
    \/ \E res \in NativeBOOL : make_no_context_current(res)
    \/ \E c \in ContextSlots, access \in SurfaceAccess, size \in Sizes,
          h \in IOSurfaces : create_surface_generic(c, access, size, h)
    \/ \E c \in ContextSlots, s \in surfaces : destroy_surface(c, s)
    \/ \E c \in ContextSlots, s \in surfaces : bind_surface_to_context(c, s)
    \/ \E c \in ContextSlots : unbind_surface_from_context(c)
    \/ \E s \in surfaces : drop_surface(s)

SpecContext == Init /\ [][NextContext]_vars

\* A render target made outside this backend is put into the framebuffer of
\* a context that has none (the External state of the binding state
\* machine; no operation of context.rs or surface.rs constructs it).
install_external_framebuffer(c) ==
    /\ ~panicked
    /\ c \in LiveSlots
    /\ contexts[c].framebuffer.kind = "None"
    /\ contexts' = [contexts EXCEPT ![c].framebuffer = FramebufferExternal]
    /\ last' = [Report("install_external_framebuffer", c, NoSurface, "Ok")
                EXCEPT !.fb_before = contexts[c].framebuffer]
    /\ UNCHANGED <<next_context_id, mutex_holder, pc, local, surfaces, guards,
                   io_lock_count, panicked,
                   current_context, release_count>>

\* The same operations, and external render targets.
NextExternal ==
    \/ Next
    \/ \E c \in ContextSlots : install_external_framebuffer(c)

SpecExternal == Init /\ [][NextExternal]_vars

(* ------------------------------- claims ------------------------------- *)
\* The live Context values: those in the callers' slots and those a thread
\* has built and not yet returned.
BuiltThreads == {t \in Threads : pc[t] = "built"}

\* C1: any two distinct contexts that are live at the same time have
\* different ContextIDs, in every interleaving of concurrent create_context
\* calls and context drops.
C1_ContextIdsUnique ==
    /\ \A c1, c2 \in LiveSlots :
          c1 # c2 => contexts[c1].id # contexts[c2].id
    /\ \A t \in BuiltThreads, c \in LiveSlots : local[t].id # contexts[c].id
    /\ \A t1, t2 \in BuiltThreads : t1 # t2 => local[t1].id # local[t2].id

\* Two contexts are live at the same time.
C1_Witness == Cardinality(LiveSlots) = 2

Bind == "bind_surface_to_context"
Unbind == "unbind_surface_from_context"

\* The last operation was a bind of a Surface made for another context.
BindMismatch ==
    /\ last.op = Bind
    /\ last.surface.context_id # contexts[last.ctx].id

\* C2 as claimed: a bind with C2.id # S.context_id fails with
\* IncompatibleSurface whatever the framebuffer of C2 is, hands S back and
\* leaves the framebuffer unchanged.
C2_Original ==
    BindMismatch =>
        /\ last.result = "IncompatibleSurface"
        /\ last.returned = last.surface
        /\ contexts[last.ctx].framebuffer = last.fb_before

\* C2 amended: a bind with C2.id # S.context_id always fails, hands S back
\* unchanged and leaves the framebuffer unchanged; the error is
\* IncompatibleSurface when the framebuffer of C2 is None, SurfaceAlreadyBound
\* when it holds a Surface and ExternalRenderTarget when it is External.
C2_Amended ==
    BindMismatch =>
        /\ last.result # "Ok"
        /\ last.returned = last.surface
        /\ last.surface \in surfaces
        /\ contexts[last.ctx].framebuffer = last.fb_before
        /\ last.fb_before.kind = "None" => last.result = "IncompatibleSurface"
        /\ last.fb_before.kind = "Surface" => last.result = "SurfaceAlreadyBound"
        /\ last.fb_before.kind = "External" => last.result = "ExternalRenderTarget"

\* A Surface made for another context was refused by a context with an
\* empty framebuffer.
C2_Witness ==
    /\ BindMismatch
    /\ last.fb_before.kind = "None"
    /\ last.result = "IncompatibleSurface"

\* C3: a bind on a context whose framebuffer is Surface(S1) returns
\* Err(SurfaceAlreadyBound, S2) and the framebuffer is still Surface(S1).
C3_BoundNeverReplaced ==
    (last.op = Bind /\ last.fb_before.kind = "Surface") =>
        /\ last.result = "SurfaceAlreadyBound"
        /\ last.returned = last.surface
        /\ last.surface \in surfaces
        /\ contexts[last.ctx].framebuffer = last.fb_before
        /\ contexts[last.ctx].framebuffer.surface # last.surface

\* A Surface of the right context was refused because another one is bound.
C3_Witness ==
    /\ last.op = Bind
    /\ last.fb_before.kind = "Surface"
    /\ last.surface.context_id = contexts[last.ctx].id
    /\ last.result = "SurfaceAlreadyBound"

\* A bind on an empty framebuffer of the Surface's own context succeeds and
\* puts exactly that Surface into the framebuffer.
C4_BindInstalls ==
    (/\ last.op = Bind
     /\ last.fb_before.kind = "None"
     /\ last.surface.context_id = contexts[last.ctx].id) =>
        /\ last.result = "Ok"
        /\ contexts[last.ctx].framebuffer = FramebufferSurface(last.surface)
        /\ last.surface \notin surfaces

\* An unbind that directly follows a successful bind on the same context
\* returns the Surface that was bound, field by field, leaves the framebuffer
\* None, and the Surface can be bound to the context again.
C4_UnbindReturnsBound ==
    (/\ last.op = Bind
     /\ last.result = "Ok"
     /\ last'.op = Unbind
     /\ last'.ctx = last.ctx) =>
        /\ last'.result = "Ok"
        /\ last'.returned = last.surface
        /\ SurfaceIdOf(last'.returned) = SurfaceIdOf(last.surface)
        /\ contexts'[last.ctx].framebuffer = FramebufferNone
        /\ last'.returned \in surfaces'
        /\ BindResult(contexts'[last.ctx], last'.returned) = "Ok"

\* C4: bind on None with a matching Surface returns Ok and sets the
\* framebuffer to Surface(S); the unbind that follows returns the same
\* Surface and leaves the framebuffer None, so that S can be bound again.
C4_BindUnbindRoundTrip == [](C4_BindInstalls) /\ [][C4_UnbindReturnsBound]_vars

\* An unbind has handed back a Surface.
C4_Witness ==
    /\ last.op = Unbind
    /\ last.result = "Ok"
    /\ last.returned # NoSurface
    /\ last.returned \in surfaces

\* While the framebuffer is External, bind, unbind and context_surface_info
\* fail with ExternalRenderTarget and change nothing.
C5_ExternalRefused ==
    (/\ last.op \in {Bind, Unbind, "context_surface_info"}
     /\ last.fb_before.kind = "External") =>
        /\ last.result = "ExternalRenderTarget"
        /\ contexts[last.ctx].framebuffer = last.fb_before
        /\ last.op = Bind =>
              (last.returned = last.surface /\ last.surface \in surfaces)
        /\ last.op # Bind => last.returned = NoSurface

\* A framebuffer becomes External by no operation of the backend.
C5_NeverEntersExternal ==
    \A c \in ContextSlots :
        (/\ contexts'[c].framebuffer.kind = "External"
         /\ contexts[c].framebuffer.kind # "External") =>
            last'.op = "install_external_framebuffer"

\* C5: while a framebuffer is External, bind, unbind and
\* context_surface_info return ExternalRenderTarget (bind hands S back) and
\* leave the framebuffer unchanged, and no public operation moves a
\* framebuffer from None or Surface(_) into External.
C5_External == [](C5_ExternalRefused) /\ [][C5_NeverEntersExternal]_vars

\* An unbind was refused on an external render target.
C5_Witness ==
    /\ last.op = Unbind
    /\ last.fb_before.kind = "External"
    /\ last.result = "ExternalRenderTarget"

\* An unbind on an empty framebuffer returns Ok(None), and every successful
\* unbind leaves the framebuffer None.
C6_UnbindNone ==
    /\ (last.op = Unbind /\ last.fb_before.kind = "None") =>
          /\ last.result = "Ok"
          /\ last.returned = NoSurface
    /\ (last.op = Unbind /\ last.result = "Ok") =>
          contexts[last.ctx].framebuffer = FramebufferNone

\* An unbind that directly follows a successful unbind of the same context
\* returns Ok(None).
C6_SecondUnbind ==
    (/\ last.op = Unbind
     /\ last.result = "Ok"
     /\ last'.op = Unbind
     /\ last'.ctx = last.ctx) =>
        /\ last'.result = "Ok"
        /\ last'.returned = NoSurface

\* C6: unbind on a framebuffer None returns Ok(None) and leaves it None;
\* after a successful unbind a second unbind returns Ok(None), never the
\* Surface again.
C6_UnbindIdempotent == [](C6_UnbindNone) /\ [][C6_SecondUnbind]_vars

\* An unbind found nothing bound.
C6_Witness ==
    /\ last.op = Unbind
    /\ last.fb_before.kind = "None"
    /\ last.result = "Ok"
    /\ last.returned = NoSurface

\* What the operations that take a value by ownership hand back.
C7_HandedBack ==
    /\ (last.op = Bind /\ last.result # "Ok") =>
          /\ last.result \in {"ExternalRenderTarget", "SurfaceAlreadyBound",
                              "IncompatibleSurface"}
          /\ last.returned = last.surface
          /\ last.surface \in surfaces
    /\ last.op = "create_surface_texture" =>
          /\ last.result = "UnsupportedOnThisPlatform"
          /\ last.returned = last.surface
          /\ last.surface \in surfaces
          /\ last.returned_texture = NoSurfaceTexture
    /\ last.op = "destroy_surface_texture" =>
          /\ last.result = "UnsupportedOnThisPlatform"
          /\ last.returned_texture = last.texture
          /\ last.texture.surface \in surfaces
          /\ last.returned = NoSurface

\* The texture operations and the failed binds leave every context as it was.
C7_ContextsUntouched ==
    (\/ last'.op \in {"create_surface_texture", "destroy_surface_texture"}
     \/ (last'.op = Bind /\ last'.result # "Ok")) =>
        contexts' = contexts

\* C7: every failing call of an operation that takes a value by ownership
\* hands that value back: bind on each of its three errors, and
\* create_surface_texture / destroy_surface_texture, which always fail with
\* UnsupportedOnThisPlatform, make no texture and leave the framebuffer alone.
C7_ValueReturnedOnFailure == [](C7_HandedBack) /\ [][C7_ContextsUntouched]_vars

\* A bind failed with the third of its errors and the Surface is back.
C7_Witness ==
    /\ last.op = Bind
    /\ last.result = "ExternalRenderTarget"
    /\ last.returned = last.surface

Lock == "lock_surface_data"

\* The live guards of IOSurface h.
GuardsOn(h) == {g \in BagToSet(guards) : g.surface = h}

\* C8: lock_surface_data returns SurfaceDataInaccessible without a native
\* lock call on a GPUOnly surface; otherwise it calls the native lock once and
\* returns SurfaceLockFailed if that fails and a guard if it succeeds; after
\* either error no native lock is held and no guard exists.
C8_LockOutcomes ==
    last.op = Lock =>
        LET s == last.surface
            h == last.surface.io_surface
        IN  /\ s.access = "GPUOnly" =>
                  /\ last.result = "SurfaceDataInaccessible"
                  /\ last.native_calls = 0
            /\ s.access # "GPUOnly" =>
                  /\ last.native_calls = 1
                  /\ last.native_result = "failure" =>
                        last.result = "SurfaceLockFailed"
                  /\ last.native_result = "KERN_SUCCESS" => last.result = "Ok"
            /\ last.result = "Ok" =>
                  /\ GuardsOn(h) # {}
                  /\ io_lock_count[h] = last.lock_count_before + 1
            /\ last.result # "Ok" =>
                  /\ GuardsOn(h) = {}
                  /\ io_lock_count[h] = 0

\* A surface without CPU access was refused.
C8_Witness ==
    /\ last.op = Lock
    /\ last.surface.access = "GPUOnly"
    /\ last.result = "SurfaceDataInaccessible"

\* The number of guards of the bag that are in the set S.
RECURSIVE CopiesOf(_)
CopiesOf(S) ==
    IF S = {} THEN 0
    ELSE LET g == CHOOSE x \in S : TRUE
         IN  CopiesIn(g, guards) + CopiesOf(S \ {g})

\* The number of live guards of IOSurface h.
GuardCount(h) == CopiesOf(GuardsOn(h))

\* Successful locks minus unlocks is the number of live guards: never
\* negative, and zero when every guard has been released.
C9_LocksBalanced ==
    \A h \in IOSurfaces :
        /\ io_lock_count[h] >= 0
        /\ io_lock_count[h] = GuardCount(h)

\* A native unlock is made only by the release of a live guard, once.
C9_UnlockByGuard ==
    \A h \in IOSurfaces :
        io_lock_count'[h] < io_lock_count[h] =>
            /\ io_lock_count'[h] = io_lock_count[h] - 1
            /\ \E g \in GuardsOn(h) :
                  CopiesIn(g, guards') = CopiesIn(g, guards) - 1

\* C9: each successful native lock is matched by exactly one native unlock,
\* made when its guard is released: unlocks never exceed successful locks, no
\* unlock happens without a live guard, and with every guard released the
\* counts are equal.
C9_LockUnlockMatched == [](C9_LocksBalanced) /\ [][C9_UnlockByGuard]_vars

\* A guard has been released and nothing is locked any more.
C9_Witness ==
    /\ last.op = "drop_guard"
    /\ last.lock_count_before = 1
    /\ guards = EmptyBag
    /\ \A h \in IOSurfaces : io_lock_count[h] = 0

\* At most one guard per Surface, and a guard's Surface is a free-standing,
\* live one.
C10_OneGuard ==
    \A g \in BagToSet(guards) :
        /\ CopiesIn(g, guards) = 1
        /\ Cardinality(GuardsOn(g.surface)) = 1
        /\ \E s \in surfaces : s.io_surface = g.surface

\* While a guard of a Surface is alive the Surface stays where and as it is:
\* no step binds, destroys or drops it, and no step adds a guard to it.
C10_BorrowedUntouched ==
    \A s \in surfaces :
        GuardsOn(s.io_surface) # {} =>
            /\ s \in surfaces'
            /\ \A g \in BagToSet(guards') :
                  g.surface = s.io_surface => g \in GuardsOn(s.io_surface)

\* C10: at most one SurfaceDataGuard is outstanding per Surface; a second
\* lock while a guard is alive obtains no second guard, and while a guard is
\* alive the Surface is neither bound, destroyed nor dropped.
C10_ExclusiveGuard == [](C10_OneGuard) /\ [][C10_BorrowedUntouched]_vars

\* Both surfaces are locked at the same time, one guard each.
C10_Witness ==
    /\ Cardinality(BagToSet(guards)) = 2
    /\ \A s \in surfaces : GuardsOn(s.io_surface) # {}

\* The last operation brought a Surface to its end of life: the drop of a
\* free-standing Surface, or of a Context with a Surface in its framebuffer.
EndOfLife(r) ==
    \/ r.op = "drop_surface"
    \/ r.op = "drop_context" /\ r.fb_before.kind = "Surface"

\* C11 as claimed: a Surface that reaches its end of life without
\* destroy_surface causes a panic in every case, one that was destroyed never
\* does, and destroy_surface sets the destroyed flag.
C11_Original ==
    /\ (EndOfLife(last) /\ ~last.surface.destroyed) => last.result = "Panic"
    /\ (EndOfLife(last) /\ last.surface.destroyed) => last.result = "Ok"
    /\ last.op = "destroy_surface" =>
          [last.surface EXCEPT !.destroyed = TRUE] \in surfaces

\* destroy_surface sets the destroyed flag of the Surface it is given.
C11_DestroySets ==
    last.op = "destroy_surface" =>
        /\ last.result = "Ok"
        /\ [last.surface EXCEPT !.destroyed = TRUE] \in surfaces
        /\ last.surface.destroyed \/ last.surface \notin surfaces

\* The end of life of a Surface panics exactly when the Surface was not
\* destroyed and its thread is not already panicking.
C11_DropOutcome ==
    EndOfLife(last') =>
        /\ last'.result = "Panic" <=> (~last'.surface.destroyed /\ ~panicked)
        /\ last'.result # "Panic" => last'.result = "Ok"
        /\ panicked' = (panicked \/ last'.result = "Panic")

\* The destroyed flag of a Surface, free or bound, never returns to false.
C11_DestroyedSticks ==
    \A s \in surfaces \cup BoundSurfaces :
        \A s2 \in surfaces' \cup BoundSurfaces' :
            (s.io_surface = s2.io_surface /\ s.destroyed) => s2.destroyed

\* C11 amended: a Surface that reaches its end of life (dropped
\* free-standing or inside a dropped Context's framebuffer) without
\* destroy_surface causes a panic unless its thread is already panicking, in
\* which case it is dropped without a second panic; a destroyed Surface never
\* causes one; destroy_surface sets destroyed and the flag never returns to
\* false.
C11_Amended ==
    /\ [](C11_DestroySets)
    /\ [][C11_DropOutcome /\ C11_DestroyedSticks]_vars

\* An undestroyed Surface was dropped while a panic unwinds, without a
\* second panic.
C11_Witness ==
    /\ EndOfLife(last)
    /\ ~last.surface.destroyed
    /\ last.result = "Ok"
    /\ panicked

\* C12: make_context_current returns Err(Failed) whenever the native
\* set-current call rejects the context and Ok only when it accepted it, so
\* that after Ok the given context is the current one.
C12_MakeCurrentReported ==
    last.op = "make_context_current" =>
        /\ last.native_result = "NO" => last.result = "Failed"
        /\ last.result = "Ok" =>
              /\ last.native_result = "YES"
              /\ current_context = contexts[last.ctx].id

\* C13: make_no_context_current returns Ok and leaves no context current,
\* whether nothing was current, a context had been made current before, or
\* it had just been called.
C13_NoContextCurrent ==
    last.op = "make_no_context_current" =>
        /\ last.result = "Ok"
        /\ current_context = NoContextID

\* The ContextIDs of the contexts that have been created and dropped.
DroppedContextIDs ==
    {i \in ContextIDs :
        i < next_context_id /\ \A c \in LiveSlots : contexts[c].id # i}

\* C14: when destroy_context returns Ok the native handle of the context has
\* been released, and over the life of a Context, destroy_context and drop
\* together, the handle is released exactly once.
C14_DestroyReleases ==
    /\ (last.op = "destroy_context" /\ last.result = "Ok") =>
          release_count[contexts[last.ctx].id] = 1
    /\ \A i \in ContextIDs : release_count[i] <= 1
    /\ \A i \in DroppedContextIDs : release_count[i] = 1

\* C15: destroy_context on a context whose framebuffer is Surface(S) either
\* unbinds and destroys S or is refused; S never stays bound to a destroyed
\* context, and never reaches its end of life undestroyed because its context
\* was destroyed and released.
C15_BoundSurfaceReleased ==
    /\ (last.op = "destroy_context" /\ last.fb_before.kind = "Surface") =>
          \/ last.result # "Ok"
          \/ /\ contexts[last.ctx].framebuffer.kind = "None"
             /\ \E s \in surfaces :
                   s.io_surface = last.surface.io_surface /\ s.destroyed
    /\ (last.op = "drop_context" /\ last.fb_before.kind = "Surface") =>
          last.surface.destroyed

\* C16: create_context records in the Context the version it obtained from
\* the native layer, the first one accepted when probing downward from the
\* requested major version, and context_descriptor reports that version.
C16_VersionObtained ==
    /\ (last.op = "create_context" /\ last.result = "Ok") =>
          /\ contexts[last.ctx].eagl_context \in last.supported
          /\ \A v \in NativeAPIs :
                (v \in last.supported /\ v <= last.gl_version) =>
                    v <= contexts[last.ctx].eagl_context
          /\ contexts[last.ctx].gl_version = contexts[last.ctx].eagl_context
    /\ last.op = "context_descriptor" =>
          last.gl_version = contexts[last.ctx].eagl_context

\* C18: create_context_from_native_context returns Ok with a Context that
\* has a fresh ContextID, zeroed attributes and an empty framebuffer.
C18_WrapsNativeContext ==
    last.op = "create_context_from_native_context" =>
        /\ last.result = "Ok"
        /\ last.ctx \in LiveSlots
        /\ contexts[last.ctx].gl_version = ContextAttributesZeroed.version
        /\ contexts[last.ctx].framebuffer = FramebufferNone
        /\ \A c \in LiveSlots \ {last.ctx} :
              contexts[c].id # contexts[last.ctx].id

\* A create_context call fails exactly when the requested major version is
\* outside 1..=3 or the native layer accepts none of the APIs from the
\* requested one down to 1; a call that fails yields no Context.
C17_FailedExactly ==
    last.op = "create_context" =>
        /\ last.result \in {"Ok", "Failed"}
        /\ last.result = "Failed" <=>
              \/ last.gl_version < kEAGLRenderingAPIOpenGLES1
              \/ last.gl_version > kEAGLRenderingAPIOpenGLES3
              \/ \A v \in kEAGLRenderingAPIOpenGLES1..last.gl_version :
                    v \notin last.supported
        /\ last.result = "Failed" => last.ctx \notin ContextSlots
        /\ last.result = "Ok" => last.ctx \in LiveSlots

\* A create_context call that fails leaves the shared counter and every
\* Context as they were.
C17_FailedChangesNothing ==
    (last'.op = "create_context" /\ last'.result = "Failed") =>
        /\ next_context_id' = next_context_id
        /\ contexts' = contexts

\* C17: create_context returns Err(Failed) exactly when the requested major
\* version is outside 1..=3 or no probed version down to 1 can be initialised;
\* a failed call produces no Context and leaves the context-id counter
\* unchanged.
C17_CreateContextFails ==
    [](C17_FailedExactly) /\ [][C17_FailedChangesNothing]_vars

\* A valid major version was requested, the native layer accepts some API,
\* but none from the requested one down to 1: the call failed.
C17_Witness ==
    /\ last.op = "create_context"
    /\ VersionInRange(last.gl_version)
    /\ last.supported # {}
    /\ last.result = "Failed"
    /\ next_context_id > 0

\* C19: create_surface with a Widget surface type returns an error, makes no
\* Surface and allocates no native buffer; with a Generic surface type it
\* returns a Surface that is not destroyed, has the requested size and access
\* mode and the id of the Context passed.
C19_WidgetRejected ==
    last.op = "create_surface" =>
        /\ last.surface_type = "Widget" =>
              /\ last.result \notin {"Ok", "Panic"}
              /\ last.returned = NoSurface
              /\ ~panicked
        /\ last.surface_type = "Generic" =>
              /\ last.result = "Ok"
              /\ last.returned \in surfaces
              /\ ~last.returned.destroyed
              /\ last.returned.size \in Sizes
              /\ last.returned.context_id = contexts[last.ctx].id

\* create_surface gives the Surface the id of the Context it is made for.
C20_SetAtCreation ==
    (last.op = "create_surface" /\ last.result = "Ok") =>
        /\ last.returned.context_id = contexts[last.ctx].id
        /\ surface_info(last.returned).context_id = contexts[last.ctx].id

\* No step changes the context_id of a Surface, free or bound, and
\* surface_info reports it.
C20_NeverChanges ==
    \A s \in surfaces \cup BoundSurfaces :
        \A s2 \in surfaces' \cup BoundSurfaces' :
            s.io_surface = s2.io_surface =>
                /\ s2.context_id = s.context_id
                /\ surface_info(s2).context_id = s.context_id

\* C20: the context_id of a Surface is set by create_surface to the id of
\* the creating Context and is the same in every later state, whatever is
\* done with the Surface, and surface_info reports that value.
C20_ContextIdFixed == [](C20_SetAtCreation) /\ [][C20_NeverChanges]_vars

\* A destroyed Surface was refused by a context it was not made for and is
\* back with the caller, with the context_id it had.
C20_Witness ==
    /\ last.op = Bind
    /\ last.result = "IncompatibleSurface"
    /\ last.returned \in surfaces
    /\ last.returned.destroyed
    /\ last.returned.context_id # contexts[last.ctx].id

\* The free-standing Surface values that wrap IOSurface h.
FreeOwners(h) == {s \in surfaces : s.io_surface = h}

\* The contexts whose framebuffer holds a Surface that wraps IOSurface h.
FramebufferOwners(h) ==
    {c \in LiveSlots :
        /\ contexts[c].framebuffer.kind = "Surface"
        /\ contexts[c].framebuffer.surface.io_surface = h}

\* Every live Surface has one owner: the caller, or the framebuffer of one
\* Context, and then of the Context it was made for.
C21_OneOwner ==
    \A h \in IOSurfaces :
        /\ Cardinality(FreeOwners(h)) + Cardinality(FramebufferOwners(h)) <= 1
        /\ h \in LiveIOSurfaces <=>
              Cardinality(FreeOwners(h)) + Cardinality(FramebufferOwners(h)) = 1
        /\ \A c \in FramebufferOwners(h) :
              contexts[c].framebuffer.surface.context_id = contexts[c].id

\* A bind, failed or not, and an unbind neither make nor lose a Surface: the
\* same Surface values exist after the step, each with one owner.
C21_BindConserves ==
    last'.op \in {Bind, Unbind} =>
        /\ surfaces' \cup BoundSurfaces' = surfaces \cup BoundSurfaces
        /\ \A h \in IOSurfaces :
              Cardinality(FreeOwners(h)') + Cardinality(FramebufferOwners(h)')
                  = Cardinality(FreeOwners(h)) + Cardinality(FramebufferOwners(h))

\* C21: every created, not yet dropped Surface has exactly one owner, the
\* caller or the framebuffer of exactly one Context whose id is the Surface's
\* context_id; no bind, unbind or failed bind duplicates a Surface, puts it
\* into two framebuffers or loses it.
C21_OwnershipConserved == [](C21_OneOwner) /\ [][C21_BindConserves]_vars

\* Two contexts hold a Surface each, the second just bound.
C21_Witness ==
    /\ last.op = Bind
    /\ last.result = "Ok"
    /\ Cardinality(LiveSlots) = 2
    /\ \A c \in LiveSlots : contexts[c].framebuffer.kind = "Surface"
    /\ Cardinality(LiveIOSurfaces) = 2

====
